---- MODULE Spec2Model ----
(***************************************************************************)
(* ChemyxPump (controller.py): the serial command/response transaction,    *)
(* the cached operating limits and the flow-rate units.                    *)
(*                                                                         *)
(* Text is a sequence of one-character strings, so that prefix tests,      *)
(* stripping, splitting and number formatting are computed as the code     *)
(* computes them.  A float is an exact fraction <<n, d>> with d > 0 in     *)
(* lowest terms; None is the empty tuple.                                  *)
(***************************************************************************)
EXTENDS Integers, Sequences, FiniteSets, TLC

(***************************************************************************)
(* Bounds of the model.                                                    *)
(***************************************************************************)
\* the lines in the input buffer plus the reads of the running send_command
MaxLines == 3

\* readline calls are counted up to MaxReads: more than a transaction of
\* MaxLines lines can make
MaxReads == MaxLines + 1

(***************************************************************************)
(* Text.                                                                   *)
(***************************************************************************)
None == <<>>

Whitespace == {" ", "\t", "\r", "\n"}

Digits == <<"0", "1", "2", "3", "4", "5", "6", "7", "8", "9">>

\* str.startswith
StartsWith(s, p) ==
    /\ Len(p) <= Len(s)
    /\ SubSeq(s, 1, Len(p)) = p

\* str.endswith
EndsWith(s, p) ==
    /\ Len(p) <= Len(s)
    /\ SubSeq(s, Len(s) - Len(p) + 1, Len(s)) = p

RECURSIVE LStrip(_)
LStrip(s) ==
    IF s # <<>> /\ Head(s) \in Whitespace THEN LStrip(Tail(s)) ELSE s

RECURSIVE RStrip(_)
RStrip(s) ==
    IF s # <<>> /\ s[Len(s)] \in Whitespace
    THEN RStrip(SubSeq(s, 1, Len(s) - 1))
    ELSE s

\* str.strip
Strip(s) == RStrip(LStrip(s))

\* str.split() with no separator: the maximal runs of non-whitespace
RECURSIVE SplitFrom(_, _, _)
SplitFrom(s, cur, acc) ==
    IF s = <<>>
    THEN IF cur = <<>> THEN acc ELSE Append(acc, cur)
    ELSE IF Head(s) \in Whitespace
         THEN SplitFrom(Tail(s), <<>>, IF cur = <<>> THEN acc ELSE Append(acc, cur))
         ELSE SplitFrom(Tail(s), Append(cur, Head(s)), acc)

Split(s) == SplitFrom(s, <<>>, <<>>)

UpperCase ==
    <<"A", "B", "C", "D", "E", "F", "G", "H", "I", "J", "K", "L", "M", "N",
      "O", "P", "Q", "R", "S", "T", "U", "V", "W", "X", "Y", "Z">>

LowerCase ==
    <<"a", "b", "c", "d", "e", "f", "g", "h", "i", "j", "k", "l", "m", "n",
      "o", "p", "q", "r", "s", "t", "u", "v", "w", "x", "y", "z">>

\* str.lower
Lower(s) ==
    [i \in 1..Len(s) |->
        IF \E k \in 1..26 : UpperCase[k] = s[i]
        THEN LowerCase[CHOOSE k \in 1..26 : UpperCase[k] = s[i]]
        ELSE s[i]]

\* str.upper, which the firmware of an upper-case device applies to its echo
Upper(s) ==
    [i \in 1..Len(s) |->
        IF \E k \in 1..26 : LowerCase[k] = s[i]
        THEN UpperCase[CHOOSE k \in 1..26 : LowerCase[k] = s[i]]
        ELSE s[i]]

\* the operator `in` on two texts
Contains(s, p) ==
    \E i \in 1..(Len(s) + 1) :
        /\ i + Len(p) - 1 <= Len(s)
        /\ SubSeq(s, i, i + Len(p) - 1) = p

(***************************************************************************)
(* Floats as exact fractions.                                              *)
(***************************************************************************)
Abs(n) == IF n < 0 THEN -n ELSE n

RECURSIVE GCD(_, _)
GCD(a, b) == IF b = 0 THEN a ELSE GCD(b, a % b)

Frac(n, d) ==
    LET g == GCD(Abs(n), d)
    IN  <<n \div g, d \div g>>

FMul(x, y) == Frac(x[1] * y[1], x[2] * y[2])

FDiv(x, y) ==
    IF y[1] < 0
    THEN Frac(-(x[1] * y[2]), x[2] * (-y[1]))
    ELSE Frac(x[1] * y[2], x[2] * y[1])

FLess(x, y) == x[1] * y[2] < y[1] * x[2]

FAbs(x) == <<Abs(x[1]), x[2]>>

FNeg(x) == <<-x[1], x[2]>>

RECURSIVE Pow10(_)
Pow10(k) == IF k = 0 THEN 1 ELSE 10 * Pow10(k - 1)

DigitValue(c) == CHOOSE i \in 0..9 : Digits[i + 1] = c

IsDigit(c) == \E i \in 1..10 : Digits[i] = c

RECURSIVE NatOf(_, _)
NatOf(s, acc) ==
    IF s = <<>> THEN acc ELSE NatOf(Tail(s), 10 * acc + DigitValue(Head(s)))

\* the decimal literals float() accepts: [+-] digits [. digits], at least one digit
Unsigned(s) ==
    IF s # <<>> /\ Head(s) \in {"+", "-"} THEN Tail(s) ELSE s

DotAt(s) ==
    IF \E i \in 1..Len(s) : s[i] = "."
    THEN CHOOSE i \in 1..Len(s) : s[i] = "." /\ \A j \in 1..(i - 1) : s[j] # "."
    ELSE Len(s) + 1

IntPart(s) == SubSeq(Unsigned(s), 1, DotAt(Unsigned(s)) - 1)

FracPart(s) == SubSeq(Unsigned(s), DotAt(Unsigned(s)) + 1, Len(Unsigned(s)))

IsFloatText(s) ==
    /\ \A i \in 1..Len(IntPart(s)) : IsDigit(IntPart(s)[i])
    /\ \A i \in 1..Len(FracPart(s)) : IsDigit(FracPart(s)[i])
    /\ Len(IntPart(s)) + Len(FracPart(s)) > 0

\* float(text), defined where IsFloatText(text); elsewhere float() raises ValueError
FloatOf(s) ==
    LET mag == Frac(NatOf(IntPart(s) \o FracPart(s), 0), Pow10(Len(FracPart(s))))
    IN  IF s # <<>> /\ Head(s) = "-" THEN FNeg(mag) ELSE mag

RECURSIVE NatText(_)
NatText(n) ==
    IF n < 10 THEN <<Digits[n + 1]>> ELSE Append(NatText(n \div 10), Digits[(n % 10) + 1])

\* the fraction of magnitude x >= 0 in ten-thousandths, rounded half to even
\* (10000 when the rounding carries into the integer part)
Round4(x) ==
    LET r  == x[1] % x[2]
        f  == (r * 10000) \div x[2]
        rr == (r * 10000) % x[2]
    IN  IF 2 * rr > x[2] \/ (2 * rr = x[2] /\ f % 2 = 1) THEN f + 1 ELSE f

Fixed4(x) ==
    LET c  == Round4(x) \div 10000
        f  == Round4(x) % 10000
    IN  NatText((x[1] \div x[2]) + c) \o <<".">>
          \o <<Digits[(f \div 1000) + 1], Digits[((f \div 100) % 10) + 1],
               Digits[((f \div 10) % 10) + 1], Digits[(f % 10) + 1]>>

\* "{:.4f}".format(x): the sign, then the magnitude to four decimals
Format4(x) ==
    IF x[1] < 0 THEN <<"-">> \o Fixed4(FAbs(x)) ELSE Fixed4(x)

RECURSIVE FracDigits(_, _)
FracDigits(r, d) ==
    IF r = 0
    THEN <<>>
    ELSE <<Digits[((r * 10) \div d) + 1]>> \o FracDigits((r * 10) % d, d)

\* repr(x) as an f-string embeds a float whose decimal expansion terminates
\* (magnitudes in [1e-4, 1e16), where repr uses no exponent)
Repr(x) ==
    LET m == FAbs(x)
        r == m[1] % m[2]
    IN  (IF x[1] < 0 THEN <<"-">> ELSE <<>>)
          \o NatText(m[1] \div m[2]) \o <<".">>
          \o (IF r = 0 THEN <<"0">> ELSE FracDigits(r, m[2]))

(***************************************************************************)
(* The texts the program builds and returns.                               *)
(***************************************************************************)
\* send_command's result without an open connection
ErrNotConnected ==
    <<"E", "r", "r", "o", "r", ":", " ", "N", "o", "t", " ", "c", "o", "n",
      "n", "e", "c", "t", "e", "d", " ", "t", "o", " ", "p", "u", "m", "p">>

\* send_command's result after an exception, followed by its text
CommandFailedPrefix ==
    <<"C", "o", "m", "m", "a", "n", "d", " ", "f", "a", "i", "l", "e", "d",
      ":", " ">>

NoResponse ==
    <<"N", "o", " ", "r", "e", "s", "p", "o", "n", "s", "e">>

ErrUnitCode ==
    <<"E", "r", "r", "o", "r", ":", " ", "U", "n", "i", "t", " ", "c", "o",
      "d", "e", " ", "m", "u", "s", "t", " ", "b", "e", " ", "0", "-", "3">>

\* the prefix set_units tests the response for
ErrorPrefix ==
    <<"E", "r", "r", "o", "r">>

CmdSetRate ==
    <<"s", "e", "t", " ", "r", "a", "t", "e", " ">>

CmdSetVolume ==
    <<"s", "e", "t", " ", "v", "o", "l", "u", "m", "e", " ">>

CmdSetDiameter ==
    <<"s", "e", "t", " ", "d", "i", "a", "m", "e", "t", "e", "r", " ">>

CmdSetUnits ==
    <<"s", "e", "t", " ", "u", "n", "i", "t", "s", " ">>

CmdStatus ==
    <<"s", "t", "a", "t", "u", "s">>

CmdStart ==
    <<"s", "t", "a", "r", "t">>

CmdStop ==
    <<"s", "t", "o", "p">>

CmdPause ==
    <<"p", "a", "u", "s", "e">>

CmdRestart ==
    <<"r", "e", "s", "t", "a", "r", "t">>

CmdReadLimits ==
    <<"r", "e", "a", "d", " ", "l", "i", "m", "i", "t", " ", "p", "a", "r",
      "a", "m", "e", "t", "e", "r">>

CmdRead ==
    <<"r", "e", "a", "d", " ">>

ParameterSuffix ==
    <<" ", "p", "a", "r", "a", "m", "e", "t", "e", "r">>

CommandListHint ==
    <<"c", "o", "m", "m", "a", "n", "d", " ", "l", "i", "s", "t">>

CmdHexw2 ==
    <<"h", "e", "x", "w", "2", " ", "0", " ">>

StartSuffix ==
    <<" ", "s", "t", "a", "r", "t">>

RatePrefix ==
    <<"R", "a", "t", "e", " ">>

VolumePrefix ==
    <<"V", "o", "l", "u", "m", "e", " ">>

OutsideLimits ==
    <<" ", "i", "s", " ", "o", "u", "t", "s", "i", "d", "e", " ", "p", "u",
      "m", "p", " ", "l", "i", "m", "i", "t", "s", " ", "(">>

ToText ==
    <<" ", "t", "o", " ">>

MlSuffix ==
    <<" ", "m", "L", ")">>

\* str(e) of the exception send_command caught
Cause == <<"i", "o">>

CommandFailed == CommandFailedPrefix \o Cause

(***************************************************************************)
(* UNIT_CONVERSIONS and the conversions.                                   *)
(***************************************************************************)
UnitCodes == 0..3

UnitFactor(u) ==
    CASE u = 0 -> <<1, 1>>
      [] u = 1 -> <<1, 60>>
      [] u = 2 -> <<1, 1000>>
      [] u = 3 -> <<1, 60000>>

\* the source writes the micro sign in codes 2 and 3; it is written "u" here
UnitName(u) ==
    CASE u = 0 -> <<"m", "L", "/", "m", "i", "n">>
      [] u = 1 -> <<"m", "L", "/", "h", "r">>
      [] u = 2 -> <<"u", "L", "/", "m", "i", "n">>
      [] u = 3 -> <<"u", "L", "/", "h", "r">>

convert_to_base_units(value, from_units) == FMul(value, UnitFactor(from_units))

convert_from_base_units(value, to_units) == FDiv(value, UnitFactor(to_units))

(***************************************************************************)
(* The device and the caller: the inputs of the model.                     *)
(***************************************************************************)
LineLimits ==
    <<"1", "0", ".", "0", " ", "0", ".", "5", " ", "5", ".", "0", " ", "0",
      ".", "1">>

LineLimitsInverted ==
    <<"0", ".", "5", " ", "1", "0", ".", "0", " ", "0", ".", "1", " ", "5",
      ".", "0">>

LineLimitsBadTail ==
    <<"0", ".", "5", " ", "1", "0", ".", "0", " ", "x", " ", "y">>

LineLimitsShort ==
    <<"1", "0", ".", "0", " ", "0", ".", "5">>

LineOK ==
    <<"O", "K">>

LinePrompt ==
    <<">">>

LineDeviceError ==
    <<"E", "r", "r", "o", "r", ":", " ", "b", "a", "d", " ", "v", "a", "l",
      "u", "e">>

LineBlank ==
    <<" ">>

LinePadded ==
    <<" ", "1", " ">>

LineHint ==
    <<"S", "e", "e", " ", "C", "o", "m", "m", "a", "n", "d", " ", "L", "i", "s", "t">>

\* a device: the reply lines its firmware sends, and how it echoes commands:
\* not at all, as received, or in upper case
Devices ==
    { [lines |-> {LineOK, LinePadded}, echo |-> "no"],
      [lines |-> {LinePrompt, LineOK}, echo |-> "same"],
      [lines |-> {LineOK}, echo |-> "upper"],
      [lines |-> {LineLimits, LineLimitsBadTail}, echo |-> "no"],
      [lines |-> {LineLimitsInverted, LineLimitsShort}, echo |-> "no"],
      [lines |-> {LineDeviceError, LineBlank}, echo |-> "no"],
      [lines |-> {LineHint, LineOK}, echo |-> "no"] }

Rates == { <<1, 2>>, <<600, 1>>, <<601, 1>>, <<3, 32>> }

\* set_volume: the volume and the mode of the calls made
VolumeCalls ==
    { << <<2, 1>>, "withdrawal" >>, << <<-2, 1>>, "infusion" >>,
      << <<5, 1>>, "withdrawal" >>, << <<1, 10>>, "infusion" >>,
      << <<6, 1>>, "infusion" >>, << <<1, 32>>, "withdrawal" >> }

Diameters == { <<576, 25>> }

\* set_all_parameters: the delay (None for the default), the mode and
\* start_immediately of the calls made
AllParametersCalls ==
    { <<None, "infusion", FALSE>>, <<None, "refill", TRUE>>,
      <<<<3, 2>>, "withdrawal", FALSE>> }

UnitArgs == { -1, 1, 3, 4 }

SimpleCommands == { CmdStatus, CmdStart, CmdStop, CmdPause, CmdRestart }

Params == { <<"r", "a", "t", "e">> }

(***************************************************************************)
(* State.                                                                  *)
(***************************************************************************)
VARIABLES
    connection,     \* self.connection: "none" (None), "open" or "closed"
    min_rate,       \* the cached limits: a float or None
    max_rate,
    min_volume,
    max_volume,
    current_units,  \* self.current_units
    inbuf,          \* the serial input buffer: the raw lines not read yet
    device,         \* the device on the port
    pc,             \* "idle", a place in send_command, or "done": the operation returned
    command,        \* send_command: its argument, then with the carriage return
    responses,      \* send_command: the lines drained
    response,       \* send_command: the value returned
    exit,           \* send_command: which return was taken
    call,           \* the operation running, or the last one that ran
    stage,          \* connect: 1 in the status test, 2 in the limits query
    ret,            \* the text the last operation returned (None for a boolean)
    retbool,        \* the boolean the last operation returned ("none" for a text)
    wire,           \* what the operation has written to the transport so far
    reads,          \* send_command: how many times it has called readline
    pre,            \* the limits, unit and connection when the operation was called
    parsed,         \* what the last parse_limits returned ("none" before the first)
    loading,        \* load_config: the file, the commands left, the responses so far
    discarded       \* send_command, until its write: the reset threw lines away

vars ==
    <<connection, min_rate, max_rate, min_volume, max_volume, current_units,
      inbuf, device, pc, command, responses, response, exit, call, stage,
      ret, retbool, wire, reads, pre, parsed, loading, discarded>>

\* load_config is not running
NotLoading == [name |-> <<>>, rest |-> <<>>, responses |-> <<>>, log |-> <<>>]

Loading == loading # NotLoading

limit_state == <<min_rate, max_rate, min_volume, max_volume, parsed>>

Limits ==
    [min_rate |-> min_rate, max_rate |-> max_rate,
     min_volume |-> min_volume, max_volume |-> max_volume]

Snapshot == [limits |-> Limits, units |-> current_units, connection |-> connection]

NoCall == [op |-> "none", args |-> <<>>]

Init ==
    /\ connection = "none"
    /\ min_rate = None
    /\ max_rate = None
    /\ min_volume = None
    /\ max_volume = None
    /\ current_units = 0
    /\ inbuf = <<>>
    /\ device \in Devices
    /\ pc = "idle"
    /\ command = <<>>
    /\ responses = <<>>
    /\ response = None
    /\ exit = "none"
    /\ call = NoCall
    /\ stage = 0
    /\ ret = None
    /\ retbool = "none"
    /\ wire = <<>>
    /\ reads = 0
    /\ pre = None
    /\ parsed = "none"
    /\ loading = NotLoading
    /\ discarded = FALSE

(***************************************************************************)
(* The device: it sends a line whenever it likes while the port is open.   *)
(* A line sent when the operation has returned is a line sent at the       *)
(* prompt that follows, and is taken there.                                *)
(***************************************************************************)
DeviceSends ==
    /\ connection = "open"
    /\ pc # "done"
    /\ Len(inbuf) + reads < MaxLines
    /\ \E line \in device.lines : inbuf' = Append(inbuf, line)
    /\ UNCHANGED <<connection, limit_state, current_units, device, loading, pc, command, responses,
                   response, exit, call, stage, ret, retbool, wire, reads, discarded, pre>>

\* the device echoes the command it received last
DeviceEchoes ==
    /\ connection = "open"
    /\ device.echo # "no"
    /\ wire # <<>>
    /\ Len(inbuf) + reads < MaxLines
    /\ inbuf' = Append(inbuf, IF device.echo = "upper"
                              THEN Upper(wire[Len(wire)])
                              ELSE wire[Len(wire)])
    /\ UNCHANGED <<connection, limit_state, current_units, device, loading, pc, command, responses,
                   response, exit, call, stage, ret, retbool, wire, reads, discarded, pre>>

\* the device keeps sending once it has a command: blank lines for as long as
\* the buffer has room, other lines up to MaxLines of them in a transaction
DeviceStreams ==
    /\ connection = "open"
    /\ pc # "done"
    /\ wire # <<>>
    /\ Len(inbuf) < MaxLines
    /\ \E line \in device.lines :
          /\ Strip(line) = <<>> \/ Len(responses) + Len(inbuf) < MaxLines
          /\ inbuf' = Append(inbuf, line)
    /\ UNCHANGED <<connection, limit_state, current_units, device, loading, pc, command, responses,
                   response, exit, call, stage, ret, retbool, wire, reads, discarded, pre>>

(***************************************************************************)
(* send_command.                                                           *)
(***************************************************************************)
\* FinalOf with the loop left at the first candidate (a variant for C1)
RECURSIVE FinalOfFirst(_, _, _)
FinalOfFirst(rs, sent, final) ==
    IF rs = <<>>
    THEN final
    ELSE IF ~StartsWith(Head(rs), <<">">>) /\ ~StartsWith(Head(rs), sent)
         THEN Head(rs)
         ELSE FinalOfFirst(Tail(rs), sent, final)

\* the loop of lines 107-110 over the responses, from final_response = None
RECURSIVE FinalOf(_, _, _)
FinalOf(rs, sent, final) ==
    IF rs = <<>>
    THEN final
    ELSE FinalOf(Tail(rs), sent,
                 IF ~StartsWith(Head(rs), <<">">>) /\ ~StartsWith(Head(rs), sent)
                 THEN Head(rs)
                 ELSE final)

\* lines 106-117: what send_command returns for the lines drained
FinalResponse(rs, cmd) ==
    LET final == FinalOf(rs, Strip(cmd), None)
    IN  IF final # None THEN final ELSE NoResponse

\* lines 82-83
WithCR(cmd) == IF EndsWith(cmd, <<"\r">>) THEN cmd ELSE cmd \o <<"\r">>

\* Send without the test of line 74 (a variant for C2)
SendUnchecked(cmd) ==
    /\ command' = cmd
    /\ responses' = <<>>
    /\ reads' = 0
    /\ discarded' = (inbuf # <<>>)
    /\ UNCHANGED <<ret, retbool>>
    /\ response' = None
    /\ exit' = "none"
    /\ pc' = "write"
    /\ inbuf' = <<>>

\* Send without the reset of line 79 (a variant for C19)
SendKeeping(cmd) ==
    /\ command' = cmd
    /\ responses' = <<>>
    /\ reads' = 0
    /\ UNCHANGED <<ret, retbool>>
    /\ discarded' = FALSE
    /\ inbuf' = inbuf
    /\ IF connection' # "open"
       THEN /\ response' = ErrNotConnected
            /\ exit' = "not_connected"
            /\ pc' = "ret"
       ELSE /\ response' = None
            /\ exit' = "none"
            /\ pc' = "write"

\* lines 72-79: send_command(cmd) is entered; without an open connection it
\* returns at once, otherwise reset_input_buffer empties the input buffer
Send(cmd) ==
    /\ command' = cmd
    /\ responses' = <<>>
    /\ reads' = 0
    /\ UNCHANGED <<ret, retbool>>
    /\ IF connection' # "open"
       THEN /\ response' = ErrNotConnected
            /\ exit' = "not_connected"
            /\ pc' = "ret"
            /\ inbuf' = inbuf
            /\ discarded' = FALSE
       ELSE /\ response' = None
            /\ exit' = "none"
            /\ pc' = "write"
            /\ inbuf' = <<>>
            /\ discarded' = (inbuf # <<>>)

\* the main loop is at its prompt: the user may call any operation
AtPrompt == pc = "idle"

\* a new operation starts, called by the user or from the loop of load_config
Called(op, args) ==
    /\ pc \in {"idle", "loop"}
    /\ call' = [op |-> op, args |-> args]
    /\ pre' = Snapshot
    /\ wire' = <<>>

\* the operation returns a text without calling send_command
ReturnsAtOnce(r) ==
    /\ ret' = r
    /\ retbool' = "none"
    /\ stage' = 0
    /\ pc' = "done"
    /\ UNCHANGED <<inbuf, command, responses, response, exit, reads, discarded>>

\* the caller has the returned value and is ready for the next operation
Returned ==
    /\ pc = "done"
    /\ ~Loading \/ call.op = "load_config"
    /\ loading' = NotLoading
    /\ pc' = "idle"
    /\ call' = NoCall
    /\ command' = <<>>
    /\ responses' = <<>>
    /\ response' = None
    /\ exit' = "none"
    /\ stage' = 0
    /\ ret' = None
    /\ retbool' = "none"
    /\ wire' = <<>>
    /\ reads' = 0
    /\ discarded' = FALSE
    /\ pre' = None
    /\ UNCHANGED <<connection, limit_state, current_units, inbuf, device>>

\* lines 82-90: the carriage return, write and flush
SendWrite ==
    /\ pc = "write"
    /\ command' = WithCR(command)
    /\ wire' = Append(wire, WithCR(command))
    /\ pc' = "drain"
    /\ discarded' = FALSE
    /\ UNCHANGED <<connection, limit_state, current_units, inbuf, device, loading, responses,
                   response, exit, call, stage, ret, retbool, reads, pre>>

\* lines 94-98: one turn of the loop while in_waiting
SendDrain ==
    /\ pc = "drain"
    /\ inbuf # <<>>
    /\ inbuf' = Tail(inbuf)
    /\ responses' =
         IF Strip(Head(inbuf)) # <<>>
         THEN Append(responses, Strip(Head(inbuf)))
         ELSE responses
    /\ reads' = IF reads < MaxReads THEN reads + 1 ELSE reads
    /\ discarded' = discarded
    /\ UNCHANGED <<connection, limit_state, current_units, device, loading, pc, command, response,
                   exit, call, stage, ret, retbool, wire, pre>>

\* NothingCollected for one line or none (a variant for C20)
FewCollected == Len(responses) <= 1

\* line 101: not responses
NothingCollected == responses = <<>>

\* lines 94, 101, 106-117: in_waiting is 0 and some line was drained
SendClassify ==
    /\ pc = "drain"
    /\ inbuf = <<>>
    /\ ~NothingCollected
    /\ response' = FinalResponse(responses, command)
    /\ exit' = "reply"
    /\ pc' = "ret"
    /\ UNCHANGED <<connection, limit_state, current_units, inbuf, device, loading, command,
                   responses, call, stage, ret, retbool, wire, reads, discarded, pre>>

\* lines 94, 101: in_waiting is 0 and nothing was drained
SendNothingYet ==
    /\ pc = "drain"
    /\ inbuf = <<>>
    /\ NothingCollected
    /\ pc' = "extra"
    /\ UNCHANGED <<connection, limit_state, current_units, inbuf, device, loading, command,
                   responses, response, exit, call, stage, ret, retbool, wire, reads, discarded,
                   pre>>

\* lines 102-117: one readline, which the 1 s timeout ends with no line
SendExtraRead ==
    /\ pc = "extra"
    /\ LET line == IF inbuf # <<>> THEN Strip(Head(inbuf)) ELSE <<>>
           rs   == IF line # <<>> THEN Append(responses, line) ELSE responses
       IN  /\ inbuf' = IF inbuf # <<>> THEN Tail(inbuf) ELSE inbuf
           /\ responses' = rs
           /\ response' = FinalResponse(rs, command)
    /\ reads' = reads + 1
    /\ discarded' = discarded
    /\ exit' = "reply"
    /\ pc' = "ret"
    /\ UNCHANGED <<connection, limit_state, current_units, device, loading, command, call, stage,
                   ret, retbool, wire, pre>>

\* SendFails with the port closed by the handler (a variant for C16)
SendFailsClosing ==
    /\ pc \in {"write", "drain", "extra"}
    /\ response' = CommandFailed
    /\ exit' = "failed"
    /\ pc' = "ret"
    /\ connection' = "closed"
    /\ discarded' = FALSE
    /\ UNCHANGED <<limit_state, current_units, inbuf, device, loading, command,
                   responses, call, stage, ret, retbool, wire, reads, pre>>

\* lines 119-120: the transport raised in the reset or write, the flush or a read
SendFails ==
    /\ pc \in {"write", "drain", "extra"}
    /\ response' = CommandFailed
    /\ exit' = "failed"
    /\ pc' = "ret"
    /\ discarded' = FALSE
    /\ UNCHANGED <<connection, limit_state, current_units, inbuf, device, loading, command,
                   responses, call, stage, ret, retbool, wire, reads, pre>>

(***************************************************************************)
(* The operations that return send_command's result.                       *)
(***************************************************************************)
\* RateOutside with <= and >= for < and > (a variant for C3)
RateOutsideOrOn(rate) ==
    /\ min_rate # None
    /\ max_rate # None
    /\ \/ ~FLess(min_rate, convert_to_base_units(rate, current_units))
       \/ ~FLess(convert_to_base_units(rate, current_units), max_rate)

\* line 130: the rate in base units is outside the cached limits
RateOutside(rate) ==
    /\ min_rate # None
    /\ max_rate # None
    /\ \/ FLess(convert_to_base_units(rate, current_units), min_rate)
       \/ FLess(max_rate, convert_to_base_units(rate, current_units))

\* line 135
RateMessage(rate) ==
    RatePrefix \o Repr(rate) \o OutsideLimits
      \o Format4(convert_from_base_units(min_rate, current_units)) \o ToText
      \o Format4(convert_from_base_units(max_rate, current_units)) \o <<" ">>
      \o UnitName(current_units) \o <<")">>

\* lines 138-139
RateCommand(rate) == CmdSetRate \o Format4(rate)

set_rate(rate) ==
    /\ Called("set_rate", <<rate>>)
    /\ UNCHANGED <<connection, limit_state, current_units, device, loading>>
    /\ IF RateOutside(rate)
       THEN ReturnsAtOnce(RateMessage(rate))
       ELSE Send(RateCommand(rate)) /\ stage' = 1

SetRate == AtPrompt /\ \E rate \in Rates : set_rate(rate)

\* the operation returns what send_command returned
ReturnResponse ==
    /\ pc = "ret"
    /\ call.op \in {"set_rate", "set_volume", "set_diameter", "set_all_parameters",
                    "simple"}
    /\ ret' = response
    /\ pc' = "done"
    /\ UNCHANGED <<connection, limit_state, current_units, inbuf, device, loading, command,
                   responses, response, exit, call, stage, retbool, wire, reads, discarded, pre>>

\* VolumeText with the sign of the argument kept for an infusion (a variant for C12)
VolumeTextSigned(volume, mode) ==
    IF mode = "withdrawal"
    THEN <<"-">> \o Fixed4(FAbs(volume))
    ELSE Format4(volume)

\* lines 152-157: the sign comes from the mode, the digits from the magnitude
VolumeText(volume, mode) ==
    IF mode = "withdrawal"
    THEN <<"-">> \o Fixed4(FAbs(volume))
    ELSE Format4(FAbs(volume))

\* VolumeOutside with the magnitude taken as a rate in the current unit (a variant
\* for C13)
VolumeOutsideConverted(volume) ==
    /\ min_volume # None
    /\ max_volume # None
    /\ \/ FLess(convert_to_base_units(FAbs(volume), current_units), min_volume)
       \/ FLess(max_volume, convert_to_base_units(FAbs(volume), current_units))

\* line 161
VolumeOutside(volume) ==
    /\ min_volume # None
    /\ max_volume # None
    /\ \/ FLess(FAbs(volume), min_volume)
       \/ FLess(max_volume, FAbs(volume))

\* line 162
VolumeMessage(volume) ==
    VolumePrefix \o Repr(FAbs(volume)) \o OutsideLimits
      \o Repr(min_volume) \o ToText \o Repr(max_volume) \o MlSuffix

\* line 164
VolumeCommand(volume, mode) == CmdSetVolume \o VolumeText(volume, mode)

set_volume(volume, mode) ==
    /\ Called("set_volume", <<volume, mode>>)
    /\ UNCHANGED <<connection, limit_state, current_units, device, loading>>
    /\ IF VolumeOutside(volume)
       THEN ReturnsAtOnce(VolumeMessage(volume))
       ELSE Send(VolumeCommand(volume, mode)) /\ stage' = 1

SetVolume == AtPrompt /\ \E c \in VolumeCalls : set_volume(c[1], c[2])

\* line 170
set_diameter(diameter) ==
    /\ Called("set_diameter", <<diameter>>)
    /\ UNCHANGED <<connection, limit_state, current_units, device, loading>>
    /\ Send(CmdSetDiameter \o Repr(diameter))
    /\ stage' = 1

SetDiameter == AtPrompt /\ \E diameter \in Diameters : set_diameter(diameter)

\* lines 172-189, 242-244, 258-260: start, stop, get_status, pause, restart
simple(cmd) ==
    /\ Called("simple", <<cmd>>)
    /\ UNCHANGED <<connection, limit_state, current_units, device, loading>>
    /\ Send(cmd)
    /\ stage' = 1

Simple == AtPrompt /\ \E cmd \in SimpleCommands : simple(cmd)

\* the delay argument: None stands for the default, the integer 0
DelayText(delay) == IF delay = None THEN <<"0">> ELSE Repr(delay)

\* AllParametersCommand with the volume as given (a variant for C15)
AllParametersCommandSigned(diameter, volume, rate, delay, mode, start_immediately) ==
    CmdHexw2 \o (IF mode = "withdrawal" THEN <<"1">> ELSE <<"0">>) \o <<" ">>
      \o Repr(diameter) \o <<" ">> \o Repr(volume) \o <<" ">>
      \o Repr(rate) \o <<" ">> \o DelayText(delay)
      \o (IF start_immediately THEN StartSuffix ELSE <<>>)

\* lines 204-207
AllParametersCommand(diameter, volume, rate, delay, mode, start_immediately) ==
    CmdHexw2 \o (IF mode = "withdrawal" THEN <<"1">> ELSE <<"0">>) \o <<" ">>
      \o Repr(diameter) \o <<" ">> \o Repr(FAbs(volume)) \o <<" ">>
      \o Repr(rate) \o <<" ">> \o DelayText(delay)
      \o (IF start_immediately THEN StartSuffix ELSE <<>>)

set_all_parameters(diameter, volume, rate, delay, mode, start_immediately) ==
    /\ AtPrompt
    /\ Called("set_all_parameters",
              <<diameter, volume, rate, delay, mode, start_immediately>>)
    /\ UNCHANGED <<connection, limit_state, current_units, device, loading>>
    /\ Send(AllParametersCommand(diameter, volume, rate, delay, mode,
                                 start_immediately))
    /\ stage' = 1

SetAllParameters ==
    \E diameter \in Diameters, volume \in {<<-6, 1>>},
       rate \in {<<50, 1>>}, c \in AllParametersCalls :
        set_all_parameters(diameter, volume, rate, c[1], c[2], c[3])

(***************************************************************************)
(* set_units.                                                              *)
(***************************************************************************)
\* ValidUnitCode with range(5) (a variant for C9)
ValidUnitCodeWide(unit_code) == unit_code \in 0..4

\* line 223
ValidUnitCode(unit_code) == unit_code \in 0..3

\* line 226
UnitAccepted(r) == ~StartsWith(r, ErrorPrefix)

\* UnitStored one too high: the position in the table for the code (a variant for C11)
UnitStoredNext(unit_code) == unit_code + 1

\* line 227: the value assigned to current_units
UnitStored(unit_code) == unit_code

set_units(unit_code) ==
    /\ AtPrompt
    /\ Called("set_units", <<unit_code>>)
    /\ UNCHANGED <<connection, limit_state, current_units, device, loading>>
    /\ IF ~ValidUnitCode(unit_code)
       THEN ReturnsAtOnce(ErrUnitCode)
       ELSE Send(CmdSetUnits \o NatText(unit_code)) /\ stage' = 1

SetUnits == \E unit_code \in UnitArgs : set_units(unit_code)

\* lines 226-228
SetUnitsReturns ==
    /\ pc = "ret"
    /\ call.op = "set_units"
    /\ current_units' = IF UnitAccepted(response)
                        THEN UnitStored(call.args[1])
                        ELSE current_units
    /\ ret' = response
    /\ pc' = "done"
    /\ UNCHANGED <<connection, limit_state, inbuf, device, loading, command, responses, response,
                   exit, call, stage, retbool, wire, reads, discarded, pre>>

(***************************************************************************)
(* view_parameter.                                                         *)
(***************************************************************************)
\* HasHint without lower() (a variant for C14)
HasHintExact(r) == Contains(r, CommandListHint)

\* line 382
HasHint(r) == Contains(Lower(r), CommandListHint)

\* line 379
view_parameter(param) ==
    /\ AtPrompt
    /\ Called("view_parameter", <<param>>)
    /\ UNCHANGED <<connection, limit_state, current_units, device, loading>>
    /\ Send(CmdRead \o param)
    /\ stage' = 1

ViewParameter == \E param \in Params : view_parameter(param)

\* lines 382-383: the first reply has the hint, the longer command is sent
ViewParameterRetries ==
    /\ pc = "ret"
    /\ call.op = "view_parameter"
    /\ stage = 1
    /\ HasHint(response)
    /\ UNCHANGED <<connection, limit_state, current_units, device, loading, call, wire, pre>>
    /\ Send(CmdRead \o call.args[1] \o ParameterSuffix)
    /\ stage' = 2

\* lines 382, 385
ViewParameterReturns ==
    /\ pc = "ret"
    /\ call.op = "view_parameter"
    /\ stage = 2 \/ ~HasHint(response)
    /\ ret' = response
    /\ pc' = "done"
    /\ UNCHANGED <<connection, limit_state, current_units, inbuf, device, loading, command,
                   responses, response, exit, call, stage, retbool, wire, reads, discarded, pre>>

(***************************************************************************)
(* parse_limits.                                                           *)
(***************************************************************************)
\* Swapped without the exchange (a variant for C6)
Unswapped(l) == l

\* lines 405-408
Swapped(l) ==
    LET r == IF FLess(l.max_rate, l.min_rate)
             THEN [l EXCEPT !.min_rate = l.max_rate, !.max_rate = l.min_rate]
             ELSE l
    IN  IF FLess(r.max_volume, r.min_volume)
        THEN [r EXCEPT !.min_volume = r.max_volume, !.max_volume = r.min_volume]
        ELSE r

\* Caught without the handler: the ValueError leaves parse_limits (a variant for C7)
Uncaught(l) == [result |-> "raised", limits |-> l]

\* lines 413-415: the exception is caught; what was assigned before it stays
Caught(l) == [result |-> "False", limits |-> l]

\* lines 395-412 on the reply r, from the limits l
ParseLimits(r, l) ==
    LET parts == Split(r)
        l1 == [l  EXCEPT !.max_rate = FloatOf(parts[1])]
        l2 == [l1 EXCEPT !.min_rate = FloatOf(parts[2])]
        l3 == [l2 EXCEPT !.max_volume = FloatOf(parts[3])]
        l4 == [l3 EXCEPT !.min_volume = FloatOf(parts[4])]
    IN  IF Len(parts) >= 4
        THEN IF ~IsFloatText(parts[1]) THEN Caught(l)
             ELSE IF ~IsFloatText(parts[2]) THEN Caught(l1)
             ELSE IF ~IsFloatText(parts[3]) THEN Caught(l2)
             ELSE IF ~IsFloatText(parts[4]) THEN Caught(l3)
             ELSE [result |-> "True", limits |-> Swapped(l4)]
        ELSE [result |-> "False", limits |-> l]

\* the limits become l
Store(l) ==
    /\ min_rate' = l.min_rate
    /\ max_rate' = l.max_rate
    /\ min_volume' = l.min_volume
    /\ max_volume' = l.max_volume

\* line 394: get_limits
parse_limits ==
    /\ AtPrompt
    /\ Called("parse_limits", <<>>)
    /\ UNCHANGED <<connection, limit_state, current_units, device, loading>>
    /\ Send(CmdReadLimits)
    /\ stage' = 1

ParseLimitsReturns ==
    /\ pc = "ret"
    /\ call.op = "parse_limits"
    /\ Store(ParseLimits(response, Limits).limits)
    /\ parsed' = ParseLimits(response, Limits).result
    /\ retbool' = ParseLimits(response, Limits).result
    /\ pc' = "done"
    /\ UNCHANGED <<connection, current_units, inbuf, device, loading, command, responses,
                   response, exit, call, stage, ret, wire, reads, discarded, pre>>

(***************************************************************************)
(* connect and disconnect.                                                 *)
(***************************************************************************)
\* lines 36-51: the port opens, the buffers are cleared, the status test is sent
ConnectOpens ==
    /\ AtPrompt
    /\ Called("connect", <<>>)
    /\ connection' = "open"
    /\ Send(CmdStatus)
    /\ stage' = 1
    /\ UNCHANGED <<limit_state, current_units, device, loading>>

\* lines 36, 63-65: serial.Serial raises
ConnectFails ==
    /\ AtPrompt
    /\ Called("connect", <<>>)
    /\ retbool' = "False"
    /\ stage' = 0
    /\ pc' = "done"
    /\ UNCHANGED <<connection, limit_state, current_units, inbuf, device, loading, command,
                   responses, response, exit, reads, discarded, ret>>

\* lines 51-55: the test response is printed, parse_limits asks for the limits
ConnectTested ==
    /\ pc = "ret"
    /\ call.op = "connect"
    /\ stage = 1
    /\ UNCHANGED <<connection, limit_state, current_units, device, loading, call, wire, pre>>
    /\ Send(CmdReadLimits)
    /\ stage' = 2

\* lines 55-61
ConnectReturns ==
    /\ pc = "ret"
    /\ call.op = "connect"
    /\ stage = 2
    /\ Store(ParseLimits(response, Limits).limits)
    /\ parsed' = ParseLimits(response, Limits).result
    /\ retbool' = "True"
    /\ pc' = "done"
    /\ UNCHANGED <<connection, current_units, inbuf, device, loading, command, responses,
                   response, exit, call, stage, ret, wire, reads, discarded, pre>>

\* lines 67-70
disconnect ==
    /\ AtPrompt
    /\ Called("disconnect", <<>>)
    /\ connection' = IF connection = "open" THEN "closed" ELSE connection
    /\ inbuf' = <<>>
    /\ stage' = 0
    /\ pc' = "done"
    /\ UNCHANGED <<limit_state, current_units, device, loading, command, responses, response,
                   exit, reads, discarded, ret, retbool>>

(***************************************************************************)
(* load_config, on a document with a "commands" list.                      *)
(***************************************************************************)
JsonSuffix ==
    <<".", "j", "s", "o", "n">>

LoadedPrefix ==
    <<"C", "o", "n", "f", "i", "g", "u", "r", "a", "t", "i", "o", "n", " ", "l", "o", "a", "d", "e", "d", " ", "f", "r", "o", "m", " ">>

ResponsesLabel ==
    <<"\n", "R", "e", "s", "p", "o", "n", "s", "e", "s", ":", " ">>

ResponseSeparator ==
    <<";", " ">>

NotFoundPrefix ==
    <<"C", "o", "n", "f", "i", "g", "u", "r", "a", "t", "i", "o", "n", " ", "f", "i", "l", "e", " ">>

NotFoundSuffix ==
    <<" ", "n", "o", "t", " ", "f", "o", "u", "n", "d">>

LoadFailedPrefix ==
    <<"F", "a", "i", "l", "e", "d", " ", "t", "o", " ", "l", "o", "a", "d", " ", "c", "o", "n", "f", "i", "g", "u", "r", "a", "t", "i", "o", "n", ":", " ">>

\* str(e) of the ValueError float() raises on the text s
NotAFloat(s) ==
    <<"c", "o", "u", "l", "d", " ", "n", "o", "t", " ", "c", "o", "n", "v", "e", "r", "t", " ", "s", "t", "r", "i", "n", "g", " ", "t", "o", " ", "f", "l", "o", "a", "t", ":", " ", "'">> \o s \o <<"'">>

\* the files there are: the name and the "commands" list of the document
ConfigFiles ==
    { [name |-> <<"a", ".", "j", "s", "o", "n">>,
       commands |-> << <<"d", "i", "a", "m", "e", "t", "e", "r", " ", "2", "3", ".", "0", "4">>,
                       <<"r", "a", "t", "e", " ", "1", ".", "2">> >>],
      [name |-> <<"b", ".", "j", "s", "o", "n">>,
       commands |-> << <<"V", "o", "l", "u", "m", "e", " ", "-", "2">>,
                       <<"t", "i", "m", "e", " ", "5">>,
                       <<"s", "t", "a", "r", "t">> >>],
      [name |-> <<"d", ".", "j", "s", "o", "n">>,
       commands |-> << <<"r", "a", "t", "e", " ", "f", "a", "s", "t">> >>] }

\* the names load_config is called with
FileNames ==
    { <<"a">>, <<"b", ".", "j", "s", "o", "n">>,
      <<"c">>, <<"d", ".", "j", "s", "o", "n">> }

\* lines 316-317
WithJson(filename) ==
    IF EndsWith(filename, JsonSuffix) THEN filename ELSE filename \o JsonSuffix

\* line 320: the file opens or FileNotFoundError is raised
FilesNamed(filename) == { f \in ConfigFiles : f.name = filename }

\* str.join
RECURSIVE Join(_, _)
Join(texts, sep) ==
    IF texts = <<>> THEN <<>>
    ELSE IF Len(texts) = 1 THEN texts[1]
    ELSE texts[1] \o sep \o Join(Tail(texts), sep)

\* CommandWord without lower() (a variant for C17)
CommandWordExact(parts) == parts[1]

\* line 330
CommandWord(parts) == Lower(parts[1])

\* line 331 raises ValueError: there is a second field and float() rejects it
BadValue(parts) == Len(parts) > 1 /\ ~IsFloatText(parts[2])

\* line 331
CommandValue(parts) == IF Len(parts) > 1 THEN FloatOf(parts[2]) ELSE None

\* the words of lines 333-344 that the documents of the model use
Recognized == { <<"d", "i", "a", "m", "e", "t", "e", "r">>,
                <<"v", "o", "l", "u", "m", "e">>,
                <<"r", "a", "t", "e">>,
                <<"s", "t", "a", "r", "t">> }

\* lines 314-326, 366-367
load_config(filename) ==
    /\ AtPrompt
    /\ Called("load_config", <<filename>>)
    /\ UNCHANGED <<connection, limit_state, current_units, device>>
    /\ IF FilesNamed(WithJson(filename)) = {}
       THEN /\ ReturnsAtOnce(NotFoundPrefix \o WithJson(filename) \o NotFoundSuffix)
            /\ loading' = NotLoading
       ELSE /\ \E f \in FilesNamed(WithJson(filename)) :
                  loading' = [name |-> f.name, rest |-> f.commands,
                              responses |-> <<>>, log |-> <<>>]
            /\ pc' = "loop"
            /\ UNCHANGED <<inbuf, command, responses, response, exit, stage, ret,
                           retbool, reads, discarded>>

LoadConfig == \E filename \in FileNames : load_config(filename)

\* lines 328-345: the next command of the list calls its operation
LoadConfigDispatches ==
    /\ pc = "loop"
    /\ loading.rest # <<>>
    /\ LET parts == Split(Head(loading.rest))
           value == CommandValue(parts)
       IN  /\ ~BadValue(parts)
           /\ CommandWord(parts) \in Recognized
           /\ CASE CommandWord(parts) = <<"d", "i", "a", "m", "e", "t", "e", "r">> ->
                      set_diameter(value)
                [] CommandWord(parts) = <<"v", "o", "l", "u", "m", "e">> ->
                      set_volume(FAbs(value),
                                 IF value[1] < 0 THEN "withdrawal" ELSE "infusion")
                [] CommandWord(parts) = <<"r", "a", "t", "e">> ->
                      set_rate(value)
                [] CommandWord(parts) = <<"s", "t", "a", "r", "t">> ->
                      simple(CmdStart)

\* lines 334-345: the operation has returned, its result is appended
LoadConfigCollects ==
    /\ pc = "done"
    /\ Loading
    /\ call.op # "load_config"
    /\ loading' = [loading EXCEPT !.rest = Tail(@),
                                  !.responses = Append(@, ret),
                                  !.log = Append(@, call)]
    /\ pc' = "loop"
    /\ call' = NoCall
    /\ command' = <<>>
    /\ responses' = <<>>
    /\ response' = None
    /\ exit' = "none"
    /\ stage' = 0
    /\ ret' = None
    /\ retbool' = "none"
    /\ wire' = <<>>
    /\ reads' = 0
    /\ discarded' = FALSE
    /\ pre' = None
    /\ UNCHANGED <<connection, limit_state, current_units, inbuf, device>>

\* lines 333-345: no branch takes the command
LoadConfigSkips ==
    /\ pc = "loop"
    /\ loading.rest # <<>>
    /\ ~BadValue(Split(Head(loading.rest)))
    /\ CommandWord(Split(Head(loading.rest))) \notin Recognized
    /\ loading' = [loading EXCEPT !.rest = Tail(@)]
    /\ UNCHANGED <<connection, limit_state, current_units, inbuf, device, pc, command,
                   responses, response, exit, call, stage, ret, retbool, wire, reads, discarded,
                   pre>>

\* lines 331, 368-369: float() raises and load_config returns the failure
LoadConfigFails ==
    /\ pc = "loop"
    /\ loading.rest # <<>>
    /\ BadValue(Split(Head(loading.rest)))
    /\ ret' = LoadFailedPrefix \o NotAFloat(Split(Head(loading.rest))[2])
    /\ call' = [op |-> "load_config", args |-> <<loading.name>>]
    /\ pc' = "done"
    /\ UNCHANGED <<connection, limit_state, current_units, inbuf, device, loading,
                   command, responses, response, exit, stage, retbool, wire, reads, discarded,
                   pre>>

\* line 364: the list is done
LoadConfigReturns ==
    /\ pc = "loop"
    /\ loading.rest = <<>>
    /\ ret' = LoadedPrefix \o loading.name \o ResponsesLabel
                 \o Join(loading.responses, ResponseSeparator)
    /\ call' = [op |-> "load_config", args |-> <<loading.name>>]
    /\ pc' = "done"
    /\ UNCHANGED <<connection, limit_state, current_units, inbuf, device, loading,
                   command, responses, response, exit, stage, retbool, wire, reads, discarded,
                   pre>>

Next ==
    \/ DeviceSends
    \/ DeviceEchoes
    \/ SendWrite
    \/ SendDrain
    \/ SendClassify
    \/ SendNothingYet
    \/ SendExtraRead
    \/ SendFails
    \/ ReturnResponse
    \/ SetRate
    \/ SetVolume
    \/ SetDiameter
    \/ Simple
    \/ SetAllParameters
    \/ SetUnits
    \/ SetUnitsReturns
    \/ ViewParameter
    \/ ViewParameterRetries
    \/ ViewParameterReturns
    \/ parse_limits
    \/ ParseLimitsReturns
    \/ ConnectOpens
    \/ ConnectFails
    \/ ConnectTested
    \/ ConnectReturns
    \/ disconnect
    \/ LoadConfig
    \/ LoadConfigDispatches
    \/ LoadConfigCollects
    \/ LoadConfigSkips
    \/ LoadConfigFails
    \/ LoadConfigReturns
    \/ Returned

Spec == Init /\ [][Next]_vars

(***************************************************************************)
(* The transactions of connect and of the plain commands against a device  *)
(* that keeps sending.  send_command runs in one thread that is never      *)
(* suspended: a step it can take is taken.  Nothing is assumed of the      *)
(* device, of the transport's failures or of the user.                     *)
(***************************************************************************)
SendStep ==
    \/ SendWrite
    \/ SendDrain
    \/ SendClassify
    \/ SendNothingYet
    \/ SendExtraRead

StreamNext ==
    \/ DeviceStreams
    \/ SendWrite
    \/ SendDrain
    \/ SendClassify
    \/ SendNothingYet
    \/ SendExtraRead
    \/ SendFails
    \/ ReturnResponse
    \/ Simple
    \/ ConnectOpens
    \/ ConnectTested
    \/ ConnectReturns
    \/ Returned

StreamSpec == Init /\ [][StreamNext]_vars /\ WF_vars(SendStep)

(***************************************************************************)
(* Properties.                                                             *)
(***************************************************************************)
\* send_command was entered by the running (or just finished) operation
Entered == pc \in {"write", "drain", "extra", "ret"} \/ exit # "none"

\* the operation in `call` is running or has just returned
Active(op) == pc # "idle" /\ call.op = op

\* the text of the command send_command was given (the carriage return taken off)
SentText ==
    IF EndsWith(command, <<"\r">>) THEN SubSeq(command, 1, Len(command) - 1) ELSE command

Noise(line) == StartsWith(line, <<">">>) \/ StartsWith(line, SentText)

Candidates == { i \in 1..Len(responses) : ~Noise(responses[i]) }

\* C1: when send_command returns from its classification, the value returned is
\* the last drained line that is neither a prompt line nor an echo of the
\* command, and "No response" when there is no such line.
C1_LastCandidate ==
    exit = "reply" =>
        IF Candidates = {}
        THEN response = NoResponse
        ELSE \E i \in Candidates :
                /\ \A j \in Candidates : j <= i
                /\ response = responses[i]

\* the documented example: echo, prompt, then the answer
C1_Witness ==
    /\ exit = "reply"
    /\ call.op = "set_rate"
    /\ responses = <<SentText, LinePrompt, LineOK>>
    /\ response = LineOK

\* C2: without an open connection send_command returns the not-connected error
\* at once: nothing is written to the transport and nothing is read from it.
C2_NotConnected ==
    (Entered /\ connection # "open") =>
        /\ pc \in {"ret", "done"}
        /\ exit = "not_connected"
        /\ response = ErrNotConnected
        /\ wire = <<>>
        /\ reads = 0
        /\ responses = <<>>

\* after a disconnect that followed other operations
C2_Witness ==
    /\ connection = "closed"
    /\ parsed = "True"
    /\ Active("set_units")
    /\ pc = "done"
    /\ ret = ErrNotConnected
    /\ wire = <<>>

\* both rate limits were cached when the operation was called
RateLimitsKnown == pre.limits.min_rate # None /\ pre.limits.max_rate # None

\* the rate argument in base units lies outside the cached limits
OutOfRateRange(v) ==
    LET base == FMul(v, UnitFactor(pre.units))
    IN  FLess(base, pre.limits.min_rate) \/ FLess(pre.limits.max_rate, base)

\* text t is value v written with exactly four decimals
FourDecimals(t, v) ==
    /\ IsFloatText(t)
    /\ Len(FracPart(t)) = 4
    /\ LET d == FloatOf(t)
       IN  /\ 20000 * Abs(d[1] * v[2] - v[1] * d[2]) <= d[2] * v[2]

\* C3: with the rate limits cached, set_rate(v) is rejected with the out-of-range
\* text and writes nothing exactly when v * factor[unit] is below min_rate or
\* above max_rate; otherwise (a value on a bound included) it hands
\* "set rate <v to 4 decimals>" to send_command.
C3_RateChecked ==
    (Active("set_rate") /\ RateLimitsKnown) =>
        LET v == call.args[1]
        IN  IF OutOfRateRange(v)
            THEN /\ pc = "done"
                 /\ ~Entered
                 /\ wire = <<>>
                 /\ StartsWith(ret, RatePrefix \o Repr(v) \o OutsideLimits)
            ELSE /\ Entered
                 /\ StartsWith(SentText, CmdSetRate)
                 /\ FourDecimals(SubSeq(SentText, Len(CmdSetRate) + 1, Len(SentText)), v)
                 /\ wire \in {<<>>, <<SentText \o <<"\r">> >>}

\* 600 mL/hr against limits 0.5 to 10.0 mL/min: on the bound, accepted and written
C3_Witness ==
    /\ Active("set_rate")
    /\ call.args[1] = <<600, 1>>
    /\ pre.units = 1
    /\ pre.limits.min_rate = <<1, 2>>
    /\ pre.limits.max_rate = <<10, 1>>
    /\ wire = << CmdSetRate \o <<"6", "0", "0", ".", "0", "0", "0", "0", "\r">> >>

\* the limits cached when the operation was called
VolumeLimitsKnown == pre.limits.min_volume # None /\ pre.limits.max_volume # None

Within(x, lo, hi) == ~FLess(x, lo) /\ ~FLess(hi, x)

\* C4: with the limits cached, no operation writes a command that carries a rate
\* whose base-unit value is outside [min_rate, max_rate] or a volume whose
\* magnitude is outside [min_volume, max_volume].
C4_NothingOutOfRangeWritten ==
    (pc # "idle" /\ wire # <<>>) =>
        /\ (call.op = "set_rate" /\ RateLimitsKnown) =>
              Within(FMul(call.args[1], UnitFactor(pre.units)),
                     pre.limits.min_rate, pre.limits.max_rate)
        /\ (call.op = "set_volume" /\ VolumeLimitsKnown) =>
              Within(FAbs(call.args[1]), pre.limits.min_volume, pre.limits.max_volume)
        /\ (call.op = "set_all_parameters" /\ RateLimitsKnown) =>
              Within(call.args[3], pre.limits.min_rate, pre.limits.max_rate)
        /\ (call.op = "set_all_parameters" /\ VolumeLimitsKnown) =>
              Within(FAbs(call.args[2]), pre.limits.min_volume, pre.limits.max_volume)

\* the operation returned a text of its own, without entering send_command
Rejected == pc = "done" /\ ~Entered

\* C5: after a limits query that did not parse, every set_rate and set_volume
\* skips the bound check and hands its command to send_command.
C5_NoCheckAfterFailedParse ==
    (parsed = "False" /\ (Active("set_rate") \/ Active("set_volume"))) => ~Rejected

FMin(x, y) == IF FLess(y, x) THEN y ELSE x

FMax(x, y) == IF FLess(x, y) THEN y ELSE x

\* parse_limits has just run: alone, or as the last step of connect
ParseLimitsDone ==
    /\ pc = "done"
    /\ \/ call.op = "parse_limits"
       \/ call.op = "connect" /\ stage = 2

FourNumbers(r) ==
    /\ Len(Split(r)) = 4
    /\ \A i \in 1..4 : IsFloatText(Split(r)[i])

\* C6: on a reply of four numbers a b c d, parse_limits returns true and leaves
\* min_rate = min(a, b), max_rate = max(a, b), min_volume = min(c, d) and
\* max_volume = max(c, d).
C6_LimitsOrdered ==
    (ParseLimitsDone /\ FourNumbers(response)) =>
        LET a == FloatOf(Split(response)[1])
            b == FloatOf(Split(response)[2])
            c == FloatOf(Split(response)[3])
            d == FloatOf(Split(response)[4])
        IN  /\ parsed = "True"
            /\ call.op = "parse_limits" => retbool = "True"
            /\ min_rate = FMin(a, b)
            /\ max_rate = FMax(a, b)
            /\ min_volume = FMin(c, d)
            /\ max_volume = FMax(c, d)

\* the inverted reply "0.5 10.0 0.1 5.0" gives the limits of "10.0 0.5 5.0 0.1"
C6_Witness ==
    /\ ParseLimitsDone
    /\ call.op = "parse_limits"
    /\ response = LineLimitsInverted
    /\ retbool = "True"
    /\ Limits = [min_rate |-> <<1, 2>>, max_rate |-> <<10, 1>>,
                 min_volume |-> <<1, 10>>, max_volume |-> <<5, 1>>]

\* C7: parse_limits never raises: whatever send_command returned, it returns a
\* boolean; on a reply of fewer than four fields it returns false and leaves the
\* limits as they were (unset, when they were unset).
C7_ParseLimitsTotal ==
    ParseLimitsDone =>
        /\ parsed \in {"True", "False"}
        /\ call.op = "parse_limits" => retbool = parsed
        /\ Len(Split(response)) < 4 =>
              /\ parsed = "False"
              /\ Limits = pre.limits

\* a reply of two fields while no limit is cached
C7_Witness ==
    /\ ParseLimitsDone
    /\ call.op = "parse_limits"
    /\ response = LineLimitsShort
    /\ retbool = "False"
    /\ Limits = [min_rate |-> None, max_rate |-> None,
                 min_volume |-> None, max_volume |-> None]

\* C8: whenever min_rate and max_rate are both set, min_rate <= max_rate, and
\* whenever min_volume and max_volume are both set, min_volume <= max_volume.
C8_MinNotAboveMax ==
    /\ (min_rate # None /\ max_rate # None) => ~FLess(max_rate, min_rate)
    /\ (min_volume # None /\ max_volume # None) => ~FLess(max_volume, min_volume)

\* C9: set_units with a code outside {0, 1, 2, 3} returns the invalid-unit error,
\* enters no transaction (nothing is written or read) and leaves the unit as it was.
C9_InvalidUnitCode ==
    (Active("set_units") /\ call.args[1] \notin {0, 1, 2, 3}) =>
        /\ pc = "done"
        /\ ret = ErrUnitCode
        /\ ~Entered
        /\ wire = <<>>
        /\ reads = 0
        /\ current_units = pre.units

\* code 4 on an open connection, the unit having been changed to mL/hr before
C9_Witness ==
    /\ Active("set_units")
    /\ call.args[1] = 4
    /\ connection = "open"
    /\ pre.units = 1
    /\ ret = ErrUnitCode
    /\ current_units = 1

\* C10: set_units with a code in {0, 1, 2, 3} makes the code the current unit if
\* and only if the transaction returned a device reply that is no error; when
\* send_command ends in the not-connected or the command-failed error, the
\* current unit keeps its value.
C10_UnitSetOnlyOnReply ==
    (Active("set_units") /\ pc = "done" /\ call.args[1] \in {0, 1, 2, 3}) =>
        /\ exit \in {"not_connected", "failed"} => current_units = pre.units
        /\ (exit = "reply" /\ ~StartsWith(response, ErrorPrefix)) =>
              current_units = call.args[1]
        /\ current_units # pre.units => exit = "reply"

\* C11: the current unit is 0 at the start, is one of the codes 0, 1, 2, 3 in
\* every reachable state, and changes only in a step in which set_units returns
\* (no other operation, and no step of the device, changes it).
C11_UnitChangedBySetUnitsOnly ==
    /\ current_units = 0
    /\ [](current_units \in {0, 1, 2, 3})
    /\ [][current_units' # current_units =>
            /\ call.op = "set_units"
            /\ pc = "ret"
            /\ pc' = "done"]_vars

\* view_parameter has run with the unit set to uL/hr, and the unit is uL/hr still
C11_Witness ==
    /\ Active("view_parameter")
    /\ pc = "done"
    /\ exit = "reply"
    /\ pre.units = 3
    /\ current_units = 3

\* the text after "set volume " in the command handed to send_command
VolumeField == SubSeq(SentText, Len(CmdSetVolume) + 1, Len(SentText))

\* C12: the command set_volume(v, mode) hands to send_command is "set volume "
\* and |v| written with four decimals, with a minus sign in front exactly when
\* mode is "withdrawal", whatever the sign of v.
C12_VolumeSignFromMode ==
    (Active("set_volume") /\ Entered) =>
        /\ StartsWith(SentText, CmdSetVolume)
        /\ VolumeField # <<>>
        /\ IF call.args[2] = "withdrawal"
           THEN /\ Head(VolumeField) = "-"
                /\ FourDecimals(Tail(VolumeField), FAbs(call.args[1]))
           ELSE /\ Head(VolumeField) # "-"
                /\ FourDecimals(VolumeField, FAbs(call.args[1]))

\* set_volume(2.0, "withdrawal") has written "set volume -2.0000"
C12_Witness ==
    /\ Active("set_volume")
    /\ call.args = << <<2, 1>>, "withdrawal" >>
    /\ wire = << CmdSetVolume \o <<"-", "2", ".", "0", "0", "0", "0", "\r">> >>

\* the magnitude of the volume argument lies outside the cached volume limits
OutOfVolumeRange(v) ==
    FLess(FAbs(v), pre.limits.min_volume) \/ FLess(pre.limits.max_volume, FAbs(v))

\* C13: with the volume limits cached, set_volume(v, mode) is rejected with the
\* out-of-range text and writes nothing exactly when |v| is below min_volume or
\* above max_volume, in either mode; |v| is compared in mL as it is, so the
\* current rate unit has no part in the decision.
C13_VolumeChecked ==
    (Active("set_volume") /\ VolumeLimitsKnown) =>
        IF OutOfVolumeRange(call.args[1])
        THEN /\ pc = "done"
             /\ ~Entered
             /\ wire = <<>>
             /\ StartsWith(ret, VolumePrefix \o Repr(FAbs(call.args[1])) \o OutsideLimits)
        ELSE /\ Entered
             /\ StartsWith(SentText, CmdSetVolume)
             /\ wire \in {<<>>, <<SentText \o <<"\r">> >>}

\* 5 mL against limits 0.1 to 5.0 mL with the rate unit mL/hr: accepted and written
C13_Witness ==
    /\ Active("set_volume")
    /\ call.args = << <<5, 1>>, "withdrawal" >>
    /\ pre.units = 1
    /\ pre.limits.min_volume = <<1, 10>>
    /\ pre.limits.max_volume = <<5, 1>>
    /\ wire = << CmdSetVolume \o <<"-", "5", ".", "0", "0", "0", "0", "\r">> >>

\* the reply has "command list" in it, in whatever case
MentionsCommandList(r) ==
    \E i \in 1..Len(r) :
        /\ i + Len(CommandListHint) - 1 <= Len(r)
        /\ Lower(SubSeq(r, i, i + Len(CommandListHint) - 1)) = CommandListHint

\* the two commands of view_parameter for the parameter of the running call
ReadShort == CmdRead \o call.args[1]

ReadLong == CmdRead \o call.args[1] \o ParameterSuffix

\* C14: view_parameter(name) first enters send_command with "read <name>"; when
\* that transaction has returned, it enters send_command once more, with
\* "read <name> parameter", if and only if the reply has "command list" in it in
\* any case; after the second transaction, or a first one without the hint, it
\* returns the reply of the transaction that ran last; it writes two commands
\* at most.
C14_ViewParameterRetriesOnHint ==
    /\ [](Active("view_parameter") =>
            /\ Len(wire) <= 2
            /\ SentText \in {ReadShort, ReadLong}
            /\ pc = "done" => ret = response)
    /\ [][(call'.op = "view_parameter" /\ call.op # "view_parameter") =>
            command' = CmdRead \o call'.args[1]]_vars
    /\ [][(call.op = "view_parameter" /\ pc = "ret" /\ pc' # "ret") =>
            IF SentText = ReadShort /\ MentionsCommandList(response)
            THEN /\ command' = ReadLong
                 /\ pc' \in {"write", "ret"}
            ELSE /\ pc' = "done"
                 /\ ret' = response
                 /\ command' = command]_vars

\* the first reply was "See Command List": the second command was written and
\* its reply returned
C14_Witness ==
    /\ Active("view_parameter")
    /\ pc = "done"
    /\ wire = <<ReadShort \o <<"\r">>, ReadLong \o <<"\r">> >>
    /\ ret = LineOK

\* the fields of the command handed to send_command
SentFields == Split(SentText)

\* C15: set_all_parameters enters send_command once, with the fields "hexw2",
\* "0", the mode bit (1 for "withdrawal", 0 for any other mode), the diameter,
\* the magnitude of the volume, the rate and the delay (0 by default), followed
\* by "start" exactly when start_immediately is true.
C15_AllParametersCommand ==
    Active("set_all_parameters") =>
        /\ Entered
        /\ wire \in {<<>>, <<SentText \o <<"\r">> >>}
        /\ Len(SentFields) = IF call.args[6] THEN 8 ELSE 7
        /\ SentFields[1] = <<"h", "e", "x", "w", "2">>
        /\ SentFields[2] = <<"0">>
        /\ SentFields[3] = IF call.args[5] = "withdrawal" THEN <<"1">> ELSE <<"0">>
        /\ FloatOf(SentFields[4]) = call.args[1]
        /\ FloatOf(SentFields[5]) = FAbs(call.args[2])
        /\ FloatOf(SentFields[6]) = call.args[3]
        /\ IF call.args[4] = None
           THEN SentFields[7] = <<"0">>
           ELSE FloatOf(SentFields[7]) = call.args[4]
        /\ call.args[6] => SentFields[8] = <<"s", "t", "a", "r", "t">>

\* a mode that is neither name, volume -6.0, start at once
C15_Witness ==
    /\ Active("set_all_parameters")
    /\ call.args[5] = "refill"
    /\ call.args[6]
    /\ pc = "done"
    /\ wire = << <<"h", "e", "x", "w", "2", " ", "0", " ", "0", " ", "2", "3", ".",
                   "0", "4", " ", "6", ".", "0", " ", "5", "0", ".", "0", " ", "0",
                   " ", "s", "t", "a", "r", "t", "\r">> >>

\* send_command is between its entry on an open connection and its return
InTransaction == pc \in {"write", "drain", "extra"}

\* C16: a failure of the transport inside send_command makes send_command return
\* "Command failed: " followed by the cause to its caller, as a normal return;
\* no step of send_command, the failing one included, changes the connection,
\* the cached limits or the current unit, so the connection is still open when
\* send_command has returned.
C16_FailureReturned ==
    /\ [](exit = "failed" =>
            /\ pc \in {"ret", "done"}
            /\ StartsWith(response, CommandFailedPrefix)
            /\ SubSeq(response, Len(CommandFailedPrefix) + 1, Len(response)) = Cause
            /\ connection = "open")
    /\ [][InTransaction =>
            /\ connection' = connection
            /\ Limits' = Limits
            /\ current_units' = current_units
            /\ pc' \in {"write", "drain", "extra", "ret"}]_vars

\* connect: the status test failed before its write, and the limits query that
\* followed was written and answered
C16_Witness ==
    /\ Active("connect")
    /\ stage = 2
    /\ wire = <<CmdReadLimits \o <<"\r">> >>
    /\ exit = "reply"
    /\ connection = "open"

\* the "commands" list of the document load_config is working on
Document == (CHOOSE f \in ConfigFiles : f.name = loading.name).commands

\* every command of the list that has a second field has a number there
WellFormed(cmds) ==
    \A i \in 1..Len(cmds) :
        Len(Split(cmds[i])) > 1 => IsFloatText(Split(cmds[i])[2])

\* the operation a command string stands for, and its arguments
ExpectedCall(cmd) ==
    LET word == Lower(Split(cmd)[1])
        v    == FloatOf(Split(cmd)[2])
    IN  CASE word = <<"d", "i", "a", "m", "e", "t", "e", "r">> ->
               [op |-> "set_diameter", args |-> <<v>>]
          [] word = <<"r", "a", "t", "e">> ->
               [op |-> "set_rate", args |-> <<v>>]
          [] word = <<"v", "o", "l", "u", "m", "e">> ->
               [op |-> "set_volume",
                args |-> <<FAbs(v), IF v[1] < 0 THEN "withdrawal" ELSE "infusion">>]
          [] word = <<"s", "t", "a", "r", "t">> ->
               [op |-> "simple", args |-> <<CmdStart>>]
          [] OTHER -> NoCall

\* the calls a list of commands stands for, in the order of the list
RECURSIVE ExpectedCalls(_)
ExpectedCalls(cmds) ==
    IF cmds = <<>> THEN <<>>
    ELSE IF ExpectedCall(Head(cmds)) = NoCall
         THEN ExpectedCalls(Tail(cmds))
         ELSE <<ExpectedCall(Head(cmds))>> \o ExpectedCalls(Tail(cmds))

SameCall(c, d) == c.op = d.op /\ c.args = d.args

CallsPrefix(log, calls) ==
    /\ Len(log) <= Len(calls)
    /\ \A i \in 1..Len(log) : SameCall(log[i], calls[i])

\* C17: load_config on a document with a "commands" list calls one operation for
\* each command it recognizes, in the order of the list, and starts an operation
\* only when the one before has returned; at its return every recognized command
\* has had its call.  On a file that does not exist it returns the not-found
\* text and calls nothing.
C17_CommandsDispatchedInOrder ==
    /\ []((Loading /\ pc \in {"loop", "done"} /\ WellFormed(Document)) =>
            /\ CallsPrefix(loading.log, ExpectedCalls(Document))
            /\ Len(loading.responses) = Len(loading.log))
    /\ []((call.op = "load_config" /\ pc = "done") =>
            IF FilesNamed(WithJson(call.args[1])) = {}
            THEN /\ ret = NotFoundPrefix \o WithJson(call.args[1]) \o NotFoundSuffix
                 /\ ~Loading
                 /\ ~Entered
                 /\ wire = <<>>
            ELSE WellFormed(Document) =>
                    /\ Len(loading.log) = Len(ExpectedCalls(Document))
                    /\ StartsWith(ret, LoadedPrefix \o loading.name))
    /\ [][(Loading /\ call' # call /\ call'.op \notin {"none", "load_config"}) =>
            /\ pc = "loop"
            /\ call.op \in {"none", "load_config"}
            /\ loading' = loading
            /\ SameCall(call', ExpectedCalls(Document)[Len(loading.log) + 1])]_vars

\* {"commands": ["diameter 23.04", "rate 1.2"]}: set_diameter(23.04), then
\* set_rate(1.2), each answered "OK"
C17_Witness ==
    /\ call.op = "load_config"
    /\ pc = "done"
    /\ loading.name = <<"a", ".", "j", "s", "o", "n">>
    /\ Len(loading.log) = 2
    /\ SameCall(loading.log[1], [op |-> "set_diameter", args |-> << <<576, 25>> >>])
    /\ SameCall(loading.log[2], [op |-> "set_rate", args |-> << <<6, 5>> >>])
    /\ loading.responses = <<LineOK, LineOK>>

\* a text with its whitespace taken out and its letters in lower case
Folded(s) == Lower(SelectSeq(s, LAMBDA c : c \notin Whitespace))

\* the line is the sent command, or starts with it, up to case and spacing
EchoOfSent(line) == StartsWith(Folded(line), Folded(SentText))

\* C18: a drained line that matches the sent command as a prefix, letter case and
\* whitespace set aside, counts as an echo: send_command never returns it.
C18_EchoInAnyCaseIsNoise ==
    exit = "reply" => ~EchoOfSent(response)

\* C19: entering send_command on an open connection empties the input buffer,
\* and the lines it held are not read; nothing is read before the command is
\* written: every read of the transaction comes after its write and takes a
\* line that arrived after the entry.
C19_StaleInputDiscarded ==
    /\ [](pc = "write" => (reads = 0 /\ responses = <<>>))
    /\ [][(pc' = "write" /\ pc # "write") =>
            /\ inbuf' = <<>>
            /\ discarded' = (inbuf # <<>>)]_vars
    /\ [][pc = "write" =>
            /\ reads' = 0
            /\ responses' = <<>>
            /\ \/ inbuf' = inbuf
               \/ \E line \in device.lines \cup {wire[i] : i \in 1..Len(wire)}
                                          \cup {Upper(wire[i]) : i \in 1..Len(wire)} :
                     inbuf' = Append(inbuf, line)
            /\ pc' = "drain" => wire' = Append(wire, command')]_vars
    /\ [][reads' > reads => (pc \in {"drain", "extra"} /\ wire # <<>>)]_vars

\* the buffer held lines when send_command was entered, and is empty before the
\* write
C19_Witness ==
    /\ pc = "write"
    /\ discarded
    /\ inbuf = <<>>
    /\ Active("set_rate")
    /\ wire = <<>>

\* C20: send_command makes its one further readline exactly when the loop over
\* in_waiting ended with no line collected; whatever that read gives, it is the
\* last read and nothing more is written; when it gives nothing the result is
\* "No response", returned as a reply.  With a line collected, the further
\* readline is not made.
C20_OneMoreRead ==
    /\ [][(pc' = "extra" /\ pc # "extra") =>
            /\ pc = "drain"
            /\ responses = <<>>
            /\ inbuf = <<>>]_vars
    /\ [][(pc = "drain" /\ pc' = "ret" /\ exit' = "reply") =>
            /\ responses # <<>>
            /\ reads' = reads]_vars
    /\ [][pc = "extra" =>
            /\ wire' = wire
            /\ \/ pc' = "extra" /\ reads' = reads
               \/ /\ pc' = "ret"
                  /\ exit' = "reply"
                  /\ reads' = reads + 1
                  /\ inbuf = <<>> => response' = NoResponse
               \/ /\ pc' = "ret"
                  /\ exit' = "failed"
                  /\ reads' = reads]_vars

\* a silent spell of a device that sends no blank line: the loop read nothing,
\* the one further read timed out, and "No response" is the reply
C20_Witness ==
    /\ pc = "ret"
    /\ exit = "reply"
    /\ response = NoResponse
    /\ reads = 1
    /\ responses = <<>>
    /\ device.lines = {LinePrompt, LineOK}
    /\ wire # <<>>

\* C21: every transaction started on an open connection completes: once
\* send_command is past its connection test it returns a reply or the
\* command-failed error, whatever the device sends and however long it goes on
\* sending.
C21_TransactionCompletes ==
    InTransaction ~> (pc = "ret" /\ exit \in {"reply", "failed"})

LimitsAllUnset ==
    min_rate = None /\ max_rate = None /\ min_volume = None /\ max_volume = None

LimitsAllSet ==
    min_rate # None /\ max_rate # None /\ min_volume # None /\ max_volume # None

\* C22: in every reachable state the four limit fields are all unset or all
\* set, and when parse_limits has returned false (called alone or by connect)
\* the four fields are what they were before the call.
C22_LimitsAllOrNothing ==
    /\ LimitsAllUnset \/ LimitsAllSet
    /\ (ParseLimitsDone /\ parsed = "False") => Limits = pre.limits

\* the commands the running operation wrote before its last one
EarlierCommands == { wire[i] : i \in 1..(Len(wire) - 1) } \ { wire[Len(wire)] }

\* the device's echo of command c: a line it produces in reply to c
EchoOf(c) == { Strip(c), Upper(Strip(c)) }

\* C23: the result of a transaction is never a line the device produced in
\* reply to an earlier command: when send_command(c1) and then send_command(c2)
\* have run and the second returns a reply, the reply is not the device's echo
\* of c1, however late the device delivered it.
C23_ReplyOfThisCommand ==
    (exit = "reply" /\ wire # <<>>) =>
        \A c \in EarlierCommands : response \notin EchoOf(c)

====
